---- MODULE Spec2Model ----
(***************************************************************************)
(* Model of the weather desktop application (src/main.py).                 *)
(*                                                                         *)
(* WeatherApp.get_weather is a callback of a single-threaded Tk event      *)
(* loop.  It blocks twice on the network (the current-conditions request   *)
(* and the optional icon request); the model cuts the callback at exactly  *)
(* those two blocking calls, because the reply is chosen by the            *)
(* environment.  Everything the callback does between two blocking points  *)
(* is one action.                                                          *)
(*                                                                         *)
(* Python values are modelled with their types: a JSON string is           *)
(* [str |-> s], an integer [int |-> n], a float with one decimal           *)
(* [neg |-> b, whole |-> n, tenths |-> d]; a dict is a function whose      *)
(* DOMAIN is the set of keys present.  Response bodies follow the          *)
(* schema of the weather API (strings and numbers where it puts them),     *)
(* with any key possibly absent.                                           *)
(***************************************************************************)
EXTENDS Integers, Sequences, FiniteSets, TLC

VARIABLES
    API_KEY,        \* module constant API_KEY (main.py:8-11), fixed at start-up
    entry,          \* text of self.location_entry
    result_var,     \* self.result_var (text of the result label)
    icon_image,     \* self.icon_image
    icon_label,     \* image option of self.icon_label
    pc,             \* position of the get_weather callback
    location,       \* local variable location of get_weather
    data,           \* local variable data of get_weather
    requests,       \* history: calls of requests.get made by the current invocation
    replies,        \* history: replies[i] is what requests[i] returned or raised
    messagebox,     \* history: title of the dialog shown by the current invocation
    raised,         \* history: exception that left the current invocation
    old_icon,       \* history: self.icon_image when the current invocation began
    icon_from,      \* history: response and location whose icon is displayed
    configure,      \* pending <Configure> event of a rounded widget
    drawn           \* history: widget, size, radius and polygons of the last _redraw

appvars  == <<API_KEY, entry, result_var, icon_image, icon_label, pc, location,
              data, requests, replies, messagebox, raised, old_icon, icon_from>>
drawvars == <<configure, drawn>>
vars     == <<API_KEY, entry, result_var, icon_image, icon_label, pc, location,
              data, requests, replies, messagebox, raised, old_icon, icon_from,
              configure, drawn>>

----------------------------------------------------------------------------
(* Python values *)

None == [py |-> "None"]

S(s) == [str |-> s]
I(n) == [int |-> n]
F(neg, whole, tenths) == [neg |-> neg, whole |-> whole, tenths |-> tenths]

EmptyDict == [k \in {} |-> None]

\* str(v), as an f-string renders v
PyStr(v) ==
    IF "str" \in DOMAIN v THEN v.str
    ELSE IF "int" \in DOMAIN v THEN ToString(v.int)
    ELSE (IF v.neg THEN "-" ELSE "") \o ToString(v.whole) \o "." \o ToString(v.tenths)

\* bool(v) of a string value
Truthy(v) == v.str # ""

\* d.get(k, default)
Get(d, k, default) == IF k \in DOMAIN d THEN d[k] ELSE default

\* s.startswith(prefix)
StartsWith(s, prefix) ==
    /\ Len(s) >= Len(prefix)
    /\ SubSeq(s, 1, Len(prefix)) = prefix

\* the whitespace str.strip() removes, as far as Texts uses it
IsSpace(c) == c \in {" ", "\t", "\n"}

RECURSIVE LStrip(_)
LStrip(s) ==
    IF Len(s) > 0 /\ IsSpace(SubSeq(s, 1, 1))
    THEN LStrip(SubSeq(s, 2, Len(s)))
    ELSE s

RECURSIVE RStrip(_)
RStrip(s) ==
    IF Len(s) > 0 /\ IsSpace(SubSeq(s, Len(s), Len(s)))
    THEN RStrip(SubSeq(s, 1, Len(s) - 1))
    ELSE s

strip_identity(s) == s

\* str.strip()
strip(s) == RStrip(LStrip(s))

\* sep.join(seq) for a sequence of strings
RECURSIVE Join(_, _)
Join(sep, seq) ==
    IF Len(seq) = 0 THEN ""
    ELSE IF Len(seq) = 1 THEN seq[1]
    ELSE seq[1] \o sep \o Join(sep, Tail(seq))

----------------------------------------------------------------------------
(* Constants of the program *)

API_URL == "https://api.weatherapi.com/v1/current.json"

InitialText == "Enter a location to begin."

MissingKeyText == "Missing API key. Add your key to api_config.py (kept out of git)."

DialogTitle == "Enter a location"

ErrorPrefix == "Error fetching weather data: "

MissingKey_never(key) == FALSE

\* not API_KEY
MissingKey(key) == key = ""

----------------------------------------------------------------------------
(* get_weather: field extraction and formatting (main.py:282-315) *)

location_data(d) == Get(d, "location", EmptyDict)

current(d) == Get(d, "current", EmptyDict)

\* current.get("condition", {}) or {}
condition(d) == Get(current(d), "condition", EmptyDict)

name_blank(d, loc) == Get(location_data(d), "name", S(""))

name(d, loc) == Get(location_data(d), "name", S(loc))

region(d) == Get(location_data(d), "region", S(""))

country(d) == Get(location_data(d), "country", S(""))

temp_c(d) == Get(current(d), "temp_c", S("?"))

feelslike_c(d) == Get(current(d), "feelslike_c", S("?"))

humidity(d) == Get(current(d), "humidity", S("?"))

wind_kph(d) == Get(current(d), "wind_kph", S("?"))

cond_text(d) == Get(condition(d), "text", S("Unknown"))

\* condition.get("icon", "") or ""
icon_path(d) == Get(condition(d), "icon", S("")).str

icon_url_always_https(d) == "https:" \o icon_path(d)

icon_url(d) ==
    IF StartsWith(icon_path(d), "//") THEN "https:" \o icon_path(d) ELSE icon_path(d)

\* ", ".join(filter(None, [name, region, country]))
location_line(d, loc) ==
    LET parts == SelectSeq(<<name(d, loc), region(d), country(d)>>, Truthy)
    IN  Join(", ", [i \in 1..Len(parts) |-> parts[i].str])

details(d, loc) ==
    << IF location_line(d, loc) # "" THEN location_line(d, loc) ELSE loc,
       "Condition: " \o PyStr(cond_text(d)),
       "Temperature: " \o PyStr(temp_c(d)) \o "°C (feels like "
                       \o PyStr(feelslike_c(d)) \o "°C)",
       "Humidity: " \o PyStr(humidity(d)) \o "%",
       "Wind: " \o PyStr(wind_kph(d)) \o " kph" >>

\* the argument of the final self.result_var.set
ResultText(d, loc) == Join("\n", details(d, loc))

----------------------------------------------------------------------------
(* The environment: what the user types and what the network answers *)

Texts == {"", " \t", "Oslo", " Rome\n"}

Oslo ==
    [location |-> [name |-> S("Oslo"), region |-> S("Oslo"), country |-> S("Norway")],
     current  |-> [temp_c |-> F(FALSE, 7, 2), feelslike_c |-> F(FALSE, 4, 9),
                   humidity |-> I(71), wind_kph |-> F(FALSE, 15, 1),
                   condition |-> [text |-> S("Sunny"),
                                  icon |-> S("//cdn.weatherapi.com/weather/64x64/day/113.png")]]]

Rome ==
    [location |-> [name |-> S("Rome"), region |-> S("Lazio"), country |-> S("Italy")],
     current  |-> [temp_c |-> F(TRUE, 0, 5), feelslike_c |-> F(TRUE, 3, 0),
                   humidity |-> I(90), wind_kph |-> F(FALSE, 6, 8),
                   condition |-> [text |-> S("Mist"),
                                  icon |-> S("https://cdn.weatherapi.com/weather/64x64/night/143.png")]]]

NoIcon ==
    [location |-> [name |-> S("Oslo"), region |-> S(""), country |-> S("Norway")],
     current  |-> [temp_c |-> F(FALSE, 7, 2), feelslike_c |-> F(FALSE, 4, 9),
                   humidity |-> I(71), wind_kph |-> F(FALSE, 15, 1),
                   condition |-> [text |-> S("Sunny"), icon |-> S("")]]]

NoName ==
    [location |-> [region |-> S("Lazio")],
     current  |-> [humidity |-> I(90)]]

\* JSON bodies the conditions endpoint answers with
Responses == {Oslo, Rome, NoIcon, NoName, EmptyDict}

\* bodies the icon URL answers with
IconBodies == {"PNG:sun", "<html>Bad Gateway</html>"}

\* requests.RequestException raised by requests.get itself
TransportErrors == {"ConnectionError", "Timeout"}

PrimaryReplies ==
    {[exc |-> e] : e \in TransportErrors}
        \cup {[status |-> 401, json |-> EmptyDict]}
        \cup {[status |-> 200, json |-> d] : d \in Responses}

IconReplies ==
    {[exc |-> e] : e \in TransportErrors}
        \cup {[status |-> 404, content |-> ""]}
        \cup {[status |-> 200, content |-> b] : b \in IconBodies}

\* requests.get(...) raised, or response.raise_for_status() raises
IsRequestException(reply) ==
    IF "exc" \in DOMAIN reply THEN TRUE ELSE reply.status >= 400

\* str(exc)
ExcStr(reply) ==
    IF "exc" \in DOMAIN reply THEN reply.exc
    ELSE ToString(reply.status) \o " Client Error"

b64encode(content) == [b64 |-> content]

\* tk.PhotoImage(data=...) raises TclError unless the data decodes to an image
IsImageData(b64) == StartsWith(b64.b64, "PNG:")

PhotoImage(b64) == [image |-> b64.b64]

\* every body that lacks some subset of the fields of the schema
Absent == [absent |-> TRUE]

Prune(rec) == [k \in {j \in DOMAIN rec : rec[j] # Absent} |-> rec[k]]

LocationShapes ==
    {Prune([name |-> n, region |-> r, country |-> c]) :
        n \in {Absent, S(""), S("Oslo")},
        r \in {Absent, S(""), S("Viken")},
        c \in {Absent, S(""), S("Norway")}}

ConditionShapes ==
    {Prune([text |-> t, icon |-> i]) :
        t \in {Absent, S("Sunny")},
        i \in {Absent, S(""), S("//cdn.weatherapi.com/weather/64x64/day/113.png")}}

CurrentShapes ==
    {Prune([temp_c |-> t, feelslike_c |-> f, humidity |-> h, wind_kph |-> w,
            condition |-> c]) :
        t \in {Absent, F(FALSE, 7, 2)},
        f \in {Absent, F(TRUE, 1, 0)},
        h \in {Absent, I(71)},
        w \in {Absent, F(FALSE, 15, 1)},
        c \in {Absent} \cup ConditionShapes}

AllShapes ==
    {Prune([location |-> l, current |-> c]) :
        l \in {Absent} \cup LocationShapes,
        c \in {Absent} \cup CurrentShapes}

----------------------------------------------------------------------------
(* The rounded widgets (classes RoundedCard and RoundedEntry) *)

MaxDim == 44

\* radius=18 of form_card and result_card
CardRadius == 18

\* radius=14 of location_input
EntryRadius == 14

CardOffset == 6

EntryOffset == 4

Min(a, b) == IF a <= b THEN a ELSE b

\* the points list of _rounded_polygon
rounded_polygon(x1, y1, x2, y2, radius) ==
    << x1 + radius, y1,
       x2 - radius, y1,
       x2, y1,
       x2, y1 + radius,
       x2, y2 - radius,
       x2, y2,
       x2 - radius, y2,
       x1 + radius, y2,
       x1, y2,
       x1, y2 - radius,
       x1, y1 + radius,
       x1, y1 >>

\* r = min(self.radius, w // 2, h // 2)
ClampedRadius(radius, w, h) == Min(radius, Min(w \div 2, h \div 2))

\* the shadow polygon, then the foreground polygon
Shapes(w, h, r, offset) ==
    << rounded_polygon(offset, offset, w - 1, h - 1, r),
       rounded_polygon(0, 0, w - offset, h - offset, r) >>

NoEvent == [widget |-> "", width |-> 0, height |-> 0]

NothingDrawn == [widget |-> "", w |-> 0, h |-> 0, r |-> 0, shapes |-> <<>>]

Redrawn(widget, w, h, radius, offset) ==
    [widget |-> widget, w |-> w, h |-> h,
     r |-> ClampedRadius(radius, w, h),
     shapes |-> Shapes(w, h, ClampedRadius(radius, w, h), offset)]

\* RoundedCard._redraw, bound to <Configure> of the card's canvas
CardRedraw ==
    /\ configure.widget = "RoundedCard"
    /\ drawn' = Redrawn("RoundedCard", configure.width, configure.height,
                        CardRadius, CardOffset)
    /\ configure' = NoEvent
    /\ UNCHANGED appvars

\* RoundedEntry._redraw, bound to <Configure> of the entry's canvas
EntryRedraw ==
    /\ configure.widget = "RoundedEntry"
    /\ drawn' = Redrawn("RoundedEntry", configure.width, configure.height,
                        EntryRadius, EntryOffset)
    /\ configure' = NoEvent
    /\ UNCHANGED appvars

----------------------------------------------------------------------------
(* The application controller (class WeatherApp) *)

ErrorIcon_stale(prev) == prev

\* the except branch of the primary request clears the icon
ErrorIcon(prev) == None

ResetIcon_stale(prev) == prev

\* the icon is cleared before the response is read
ResetIcon(prev) == None

IconExceptPc_retry == "icon"

\* the except branch of the icon request falls through to the formatting
IconExceptPc == "idle"

\* log: the n-th call of requests.get was answered by reply
Answered(log, n, reply) ==
    IF Len(log) < n THEN Append(log, reply) ELSE [log EXCEPT ![n] = reply]

SourceOf(img, src) == IF img = None THEN None ELSE src

PrimaryRequest(loc) ==
    [url |-> API_URL, params |-> [key |-> API_KEY, q |-> loc, aqi |-> "no"], timeout |-> 10]

IconRequest(url) == [url |-> url, timeout |-> 10]

Init ==
    /\ API_KEY \in {"", "0123abcd"}
    /\ entry = ""
    /\ result_var = InitialText
    /\ icon_image = None
    /\ icon_label = None
    /\ pc = "idle"
    /\ location = ""
    /\ data = EmptyDict
    /\ requests = <<>>
    /\ replies = <<>>
    /\ messagebox = ""
    /\ raised = ""
    /\ old_icon = None
    /\ icon_from = None
    /\ configure = NoEvent
    /\ drawn = NothingDrawn

\* the user edits the location field while the event loop is idle
Type(t) ==
    /\ pc = "idle"
    /\ entry' = t
    /\ UNCHANGED <<API_KEY, result_var, icon_image, icon_label, pc, location, data,
                   requests, replies, messagebox, raised, old_icon, icon_from>>
    /\ UNCHANGED drawvars

\* get_weather, empty input: dialog and return
GetWeatherEmpty ==
    /\ pc = "idle"
    /\ strip(entry) = ""
    /\ location' = strip(entry)
    /\ messagebox' = DialogTitle
    /\ requests' = <<>>
    /\ replies' = <<>>
    /\ raised' = ""
    /\ old_icon' = icon_image
    /\ UNCHANGED <<API_KEY, entry, result_var, icon_image, icon_label, pc, data, icon_from>>
    /\ UNCHANGED drawvars

\* get_weather, no key: guidance message and return
GetWeatherNoKey ==
    /\ pc = "idle"
    /\ strip(entry) # ""
    /\ MissingKey(API_KEY)
    /\ location' = strip(entry)
    /\ result_var' = MissingKeyText
    /\ messagebox' = ""
    /\ requests' = <<>>
    /\ replies' = <<>>
    /\ raised' = ""
    /\ old_icon' = icon_image
    /\ UNCHANGED <<API_KEY, entry, icon_image, icon_label, pc, data, icon_from>>
    /\ UNCHANGED drawvars

\* get_weather up to the blocking requests.get of the conditions
GetWeatherRequest ==
    /\ pc = "idle"
    /\ strip(entry) # ""
    /\ ~MissingKey(API_KEY)
    /\ location' = strip(entry)
    /\ messagebox' = ""
    /\ requests' = <<PrimaryRequest(strip(entry))>>
    /\ replies' = <<>>
    /\ raised' = ""
    /\ old_icon' = icon_image
    /\ pc' = "primary"
    /\ UNCHANGED <<API_KEY, entry, result_var, icon_image, icon_label, data, icon_from>>
    /\ UNCHANGED drawvars

\* button press or <Return>
GetWeather == GetWeatherEmpty \/ GetWeatherNoKey \/ GetWeatherRequest

\* the primary request raises requests.RequestException
PrimaryRaises(reply) ==
    /\ pc = "primary"
    /\ IsRequestException(reply)
    /\ replies' = Answered(replies, Len(requests), reply)
    /\ result_var' = ErrorPrefix \o ExcStr(reply)
    /\ icon_label' = ErrorIcon(icon_label)
    /\ icon_image' = ErrorIcon(icon_image)
    /\ icon_from' = SourceOf(icon_image', icon_from)
    /\ pc' = "idle"
    /\ UNCHANGED <<API_KEY, entry, location, data, requests, messagebox, raised, old_icon>>
    /\ UNCHANGED drawvars

\* the primary request returns a body; up to the blocking requests.get of
\* the icon, or to the end when the response names no icon
PrimaryReturns(reply) ==
    /\ pc = "primary"
    /\ ~IsRequestException(reply)
    /\ replies' = Answered(replies, Len(requests), reply)
    /\ data' = reply.json
    /\ icon_image' = ResetIcon(icon_image)
    /\ icon_label' = ResetIcon(icon_label)
    /\ icon_from' = SourceOf(icon_image', icon_from)
    /\ IF icon_url(reply.json) # ""
       THEN /\ requests' = Append(requests, IconRequest(icon_url(reply.json)))
            /\ pc' = "icon"
            /\ UNCHANGED result_var
       ELSE /\ result_var' = ResultText(reply.json, location)
            /\ pc' = "idle"
            /\ UNCHANGED requests
    /\ UNCHANGED <<API_KEY, entry, location, messagebox, raised, old_icon>>
    /\ UNCHANGED drawvars

\* the icon request raises requests.RequestException
IconRaises(reply) ==
    /\ pc = "icon"
    /\ IsRequestException(reply)
    /\ replies' = Answered(replies, Len(requests), reply)
    /\ icon_image' = None
    /\ icon_label' = None
    /\ icon_from' = None
    /\ result_var' = ResultText(data, location)
    /\ pc' = IconExceptPc
    /\ UNCHANGED <<API_KEY, entry, location, data, requests, messagebox, raised, old_icon>>
    /\ UNCHANGED drawvars

\* the icon request returns bytes; tk.PhotoImage raises TclError on bytes
\* that are no image, which except requests.RequestException lets through
IconReturns(reply) ==
    /\ pc = "icon"
    /\ ~IsRequestException(reply)
    /\ replies' = Answered(replies, Len(requests), reply)
    /\ IF IsImageData(b64encode(reply.content))
       THEN /\ icon_image' = PhotoImage(b64encode(reply.content))
            /\ icon_label' = PhotoImage(b64encode(reply.content))
            /\ icon_from' = [data |-> data, location |-> location]
            /\ result_var' = ResultText(data, location)
            /\ UNCHANGED raised
       ELSE /\ raised' = "TclError"
            /\ UNCHANGED <<icon_image, icon_label, icon_from, result_var>>
    /\ pc' = "idle"
    /\ UNCHANGED <<API_KEY, entry, location, data, requests, messagebox, old_icon>>
    /\ UNCHANGED drawvars

PrimaryResponse ==
    \/ \E reply \in PrimaryReplies : PrimaryRaises(reply)
    \/ \E reply \in PrimaryReplies : PrimaryReturns(reply)

IconResponse ==
    \/ \E reply \in IconReplies : IconRaises(reply)
    \/ \E reply \in IconReplies : IconReturns(reply)

Next ==
    \/ \E t \in Texts : Type(t)
    \/ GetWeather
    \/ PrimaryResponse
    \/ IconResponse

Spec == Init /\ [][Next]_vars

\* both requests carry timeout=10, so each blocking call ends
LiveSpec == Spec /\ WF_vars(PrimaryResponse) /\ WF_vars(IconResponse)

\* one invocation with a key and a location, answered by any body of the
\* schema: the state right after GetWeatherRequest
InitShapes ==
    /\ API_KEY = "0123abcd"
    /\ entry \in {t \in Texts : strip(t) # ""}
    /\ result_var = InitialText
    /\ icon_image = None
    /\ icon_label = None
    /\ pc = "primary"
    /\ location = strip(entry)
    /\ data = EmptyDict
    /\ requests = <<PrimaryRequest(strip(entry))>>
    /\ replies = <<>>
    /\ messagebox = ""
    /\ raised = ""
    /\ old_icon = None
    /\ icon_from = None
    /\ configure = NoEvent
    /\ drawn = NothingDrawn

NextShapes ==
    \/ \E d \in AllShapes : PrimaryReturns([status |-> 200, json |-> d])
    \/ IconResponse

SpecShapes == InitShapes /\ [][NextShapes]_vars

\* a <Configure> event of any size is pending on either widget
InitDraw ==
    /\ API_KEY = ""
    /\ entry = ""
    /\ result_var = InitialText
    /\ icon_image = None
    /\ icon_label = None
    /\ pc = "idle"
    /\ location = ""
    /\ data = EmptyDict
    /\ requests = <<>>
    /\ replies = <<>>
    /\ messagebox = ""
    /\ raised = ""
    /\ old_icon = None
    /\ icon_from = None
    /\ configure \in [widget : {"RoundedCard", "RoundedEntry"},
                      width : 0..MaxDim, height : 0..MaxDim]
    /\ drawn = NothingDrawn

NextDraw == CardRedraw \/ EntryRedraw

SpecDraw == InitDraw /\ [][NextDraw]_vars

----------------------------------------------------------------------------
(* Properties *)

\* s is empty or consists only of whitespace
IsBlank(s) == \A i \in 1..Len(s) : SubSeq(s, i, i) \in {" ", "\t", "\n"}

\* a step from idle that leaves the entry alone is an invocation of get_weather
Invocation == pc = "idle" /\ entry' = entry

PrimaryFailed ==
    /\ pc = "idle"
    /\ Len(replies) = 1
    /\ (IF "exc" \in DOMAIN replies[1] THEN TRUE ELSE replies[1].status >= 400)

PrimarySucceeded ==
    /\ pc = "idle"
    /\ Len(replies) >= 1
    /\ (IF "exc" \in DOMAIN replies[1] THEN FALSE ELSE replies[1].status = 200)

IconUndecodable ==
    /\ Len(replies) = 2
    /\ (IF "exc" \in DOMAIN replies[2] THEN FALSE
        ELSE replies[2].status = 200 /\ SubSeq(replies[2].content, 1, 4) # "PNG:")

IconStepFailed ==
    /\ PrimarySucceeded
    /\ Len(replies) = 2
    /\ (IF "exc" \in DOMAIN replies[2] THEN TRUE
        ELSE replies[2].status >= 400 \/ SubSeq(replies[2].content, 1, 4) # "PNG:")

\* C1: for every location text that is empty or only whitespace, an
\* invocation of get_weather issues no HTTP request, shows the validation
\* dialog, and leaves the result text and the icon as they were.
C1_EmptyInput ==
    [][(Invocation /\ IsBlank(entry)) =>
            /\ requests' = <<>>
            /\ messagebox' = DialogTitle
            /\ result_var' = result_var
            /\ icon_image' = icon_image
            /\ icon_label' = icon_label
            /\ pc' = "idle"]_vars

\* a whitespace-only text was submitted while an icon was displayed
C1_Witness ==
    /\ pc = "idle"
    /\ entry = " \t"
    /\ messagebox = DialogTitle
    /\ requests = <<>>
    /\ icon_image # None

\* C2 as stated: with no key every invocation, whatever the location text,
\* issues no HTTP request and sets the result text to the guidance message.
C2_Original ==
    [][(Invocation /\ API_KEY = "") =>
            /\ requests' = <<>>
            /\ pc' = "idle"
            /\ result_var' = MissingKeyText]_vars

\* C2 amended: with no key no invocation issues an HTTP request; when the
\* trimmed location text is non-empty the result text becomes the guidance
\* message, and when it is blank the dialog is shown and the text is kept.
C2_NoKey ==
    [][(Invocation /\ API_KEY = "") =>
            /\ requests' = <<>>
            /\ pc' = "idle"
            /\ (~IsBlank(entry) => result_var' = MissingKeyText /\ messagebox' = "")
            /\ (IsBlank(entry) => result_var' = result_var /\ messagebox' = DialogTitle)]_vars

\* a location was submitted without a key
C2_Witness ==
    /\ API_KEY = ""
    /\ pc = "idle"
    /\ location = "Rome"
    /\ result_var = MissingKeyText
    /\ requests = <<>>

\* C3: when the primary request fails, on return the result text starts with
\* "Error fetching weather data:", no icon is displayed even if one was, no
\* icon request is issued and no exception leaves get_weather.
C3_PrimaryFailure ==
    PrimaryFailed =>
        /\ StartsWith(result_var, "Error fetching weather data:")
        /\ icon_image = None
        /\ icon_label = None
        /\ Len(requests) = 1
        /\ raised = ""

\* the primary request failed while an icon of an earlier query was displayed
C3_Witness == PrimaryFailed /\ old_icon # None

\* C4 as stated: when the primary request succeeds and the icon step fails
\* (fetch fails, HTTP error status, or undecodable bytes), the result text
\* is the formatted text of the current response, no icon is displayed and
\* no error is surfaced.
C4_IconFailure ==
    IconStepFailed =>
        /\ result_var = ResultText(replies[1].json, location)
        /\ icon_image = None
        /\ icon_label = None
        /\ raised = ""

AllPresent(d) ==
    /\ {"location", "current"} \subseteq DOMAIN d
    /\ {"name", "region", "country"} \subseteq DOMAIN d.location
    /\ \A k \in {"name", "region", "country"} : d.location[k].str # ""
    /\ {"temp_c", "feelslike_c", "humidity", "wind_kph", "condition"}
            \subseteq DOMAIN d.current
    /\ "text" \in DOMAIN d.current.condition

FiveLines(d) ==
    d.location.name.str \o ", " \o d.location.region.str \o ", "
        \o d.location.country.str
        \o "\nCondition: " \o d.current.condition.text.str
        \o "\nTemperature: " \o PyStr(d.current.temp_c)
        \o "°C (feels like " \o PyStr(d.current.feelslike_c) \o "°C)"
        \o "\nHumidity: " \o PyStr(d.current.humidity) \o "%"
        \o "\nWind: " \o PyStr(d.current.wind_kph) \o " kph"

\* C5 as stated: for every successful primary response with all fields
\* present, the result text after get_weather is exactly the five lines.
C5_FullResponse ==
    (PrimarySucceeded /\ AllPresent(replies[1].json)) =>
        result_var = FiveLines(replies[1].json)

NonEmpty(x) == x # ""

StrOr(d, k, fallback) == IF k \in DOMAIN d THEN d[k].str ELSE fallback

NumOr(d, k, fallback) == IF k \in DOMAIN d THEN PyStr(d[k]) ELSE fallback

\* the text with the fallbacks, the name a body lacks rendered as missingName
FallbackText(d, loc, missingName) ==
    LET loc_d  == IF "location" \in DOMAIN d THEN d.location ELSE EmptyDict
        cur_d  == IF "current" \in DOMAIN d THEN d.current ELSE EmptyDict
        cond_d == IF "condition" \in DOMAIN cur_d THEN cur_d.condition ELSE EmptyDict
        parts  == SelectSeq(<<StrOr(loc_d, "name", missingName),
                              StrOr(loc_d, "region", ""),
                              StrOr(loc_d, "country", "")>>, NonEmpty)
    IN  Join("\n",
            << IF parts = <<>> THEN loc ELSE Join(", ", parts),
               "Condition: " \o StrOr(cond_d, "text", "Unknown"),
               "Temperature: " \o NumOr(cur_d, "temp_c", "?") \o "°C (feels like "
                               \o NumOr(cur_d, "feelslike_c", "?") \o "°C)",
               "Humidity: " \o NumOr(cur_d, "humidity", "?") \o "%",
               "Wind: " \o NumOr(cur_d, "wind_kph", "?") \o " kph" >>)

ShownWith(src) ==
    /\ "data" \in DOMAIN src
    /\ icon_path(src.data) # ""
    /\ result_var = ResultText(src.data, src.location)

\* C7: in every idle state an icon is displayed only together with the
\* formatted text of the response that supplied it, never with an error
\* message, the guidance message, the initial prompt or another query's text.
C7_OneResult ==
    (pc = "idle" /\ (icon_image # None \/ icon_label # None)) =>
        /\ icon_label = icon_image
        /\ ShownWith(icon_from)
        /\ result_var \notin {InitialText, MissingKeyText}
        /\ ~StartsWith(result_var, "Error fetching weather data:")

\* a query displayed its icon in place of the icon of an earlier query
C7_Witness ==
    /\ pc = "idle"
    /\ icon_image # None
    /\ old_icon # None
    /\ Len(replies) = 2

C9_OneShot ==
    /\ Len(requests) <= 2
    /\ Len(replies) <= Len(requests)
    /\ Len(requests) <= Len(replies) + 1
    /\ Len(requests) >= 1 => requests[1].url = API_URL
    /\ Len(requests) = 2 =>
        /\ Len(replies) >= 1
        /\ (IF "exc" \in DOMAIN replies[1] THEN FALSE ELSE replies[1].status = 200)
        /\ LET path == icon_path(replies[1].json)
           IN  /\ path # ""
               /\ requests[2].url =
                    (IF SubSeq(path, 1, 2) = "//" THEN "https:" \o path ELSE path)

\* an absolute icon path was requested as it is, after an earlier query with an icon
C9_Witness ==
    /\ pc = "idle"
    /\ Len(requests) = 2
    /\ requests[2].url = "https://cdn.weatherapi.com/weather/64x64/night/143.png"
    /\ old_icon = PhotoImage(b64encode("PNG:sun"))

\* C10 as stated: in every redraw, for every w >= 0 and h >= 0, the radius
\* used is the configured radius clamped to half the smaller dimension and
\* both polygons satisfy x1 + r <= x2 - r and y1 + r <= y2 - r.
C10_WellFormed ==
    \A i \in 1..Len(drawn.shapes) :
        /\ \/ drawn.r = (IF drawn.widget = "RoundedCard" THEN 18 ELSE 14)
           \/ drawn.r = drawn.w \div 2
           \/ drawn.r = drawn.h \div 2
        /\ 2 * drawn.r <= drawn.w
        /\ 2 * drawn.r <= drawn.h
        /\ drawn.shapes[i][1] <= drawn.shapes[i][3]
        /\ drawn.shapes[i][8] <= drawn.shapes[i][10]

====
